---- MODULE Spec2Model ----
(***************************************************************************)
(* Tiled matrix multiply of sycl-spec-const/matmul.cpp: the host program   *)
(* of main() and the nd_range kernel it submits.  Matrices hold small      *)
(* integers (exactly representable as float), flat and row-major.          *)
(*                                                                         *)
(* One work-item is <<by, bx, ly, lx>>: work-group (by, bx), local id      *)
(* (ly, lx).  A work-item steps through                                    *)
(*   "load" -> "bar1" -> "compute" -> "bar2" -> ("load" | "write") -> "done"*)
(* where "bar1"/"bar2" mean: arrived at the barrier, not yet released.     *)
(* The k loop of COMPUTE is one step: it reads T slot pairs and changes     *)
(* only the work-item's own acc.  A barrier releases all the work-items of  *)
(* its group in one step.  Work-groups start in any order, at any time.     *)
(*                                                                         *)
(* Spec and SetupSpec are the program.  LaneSpec and LaneSetupSpec are the  *)
(* same steps on a device that keeps at most MaxLanes work-items in flight  *)
(* (a single group always fits); KernelSpec and FairSpec run the kernel on  *)
(* further inputs, on small grids, under every schedule.                    *)
(***************************************************************************)
EXTENDS Integers, Sequences, FiniteSets, TLC

\* ---------------------------------------------------------------- bounds
MaxN == 3          \* matrix sizes N in 1..MaxN
MaxT == 2          \* tile sizes TILE in 1..MaxT
MaxCells == 9      \* only shapes whose matrices have at most this many elements
MaxItems == 16     \* only shapes whose padded grid G0*G1 has at most this many work-items
MaxGroups == 4     \* only shapes whose grid has at most this many work-groups
MaxKernelItems == 4 \* the kernel is run on other inputs for grids of at most this many work-items
MaxLanes == 8      \* LaneSpec: work-items of the groups in flight on the explored device
MaxGarbage == 1    \* an undefined read yields any value in 0..MaxGarbage
MaxArith == 6      \* round_up is compared with the ceiling for x, tile in 1..MaxArith

\* 2^64 mod 5: the size_t subtraction (i - j) of line 70 wraps modulo 2^64
Pow64Mod5 == 1

VARIABLES
    N,        \* matrix size (argv[1], line 39)
    TILE,     \* tile size (TILE_SIZE, line 37)
    A, B, C,  \* the three USM buffers, offset -> value
    C0,       \* history: the contents of C when the kernel was submitted
    hpc,      \* host position: "select", "fallback", "alloc", "check", "fill",
              \* "submit", "wait", "free", "exit" (return 0), "failed" (return 1),
              \* "aborted" (std::terminate on an exception nothing catches)
    alloc,    \* buffer name -> malloc_shared returned a non-null pointer
    diag,     \* the messages written to the error stream
    freed,    \* the buffers have been released (lines 119-121)
    started,  \* work-group -> the device has begun executing it
    pc,       \* work-item -> position
    p,        \* work-item -> phase counter of the loop at line 94
    acc,      \* work-item -> accumulator (line 92)
    tileA,    \* work-group -> local slot -> [val, ph]: value and the phase that stored it
    tileB,
    arrivals, \* history: work-item -> number of barrier arrivals
    Cwrites,  \* history: offset of C -> sequence of work-items that wrote it
    oob,      \* history: some global access used a row or column >= N
    uaf       \* history: some global access happened after the buffers were freed

vars == <<N, TILE, A, B, C, C0, hpc, alloc, diag, freed, started, pc, p, acc, tileA, tileB,
          arrivals, Cwrites, oob, uaf>>

\* ------------------------------------------------------- grid derivation
\* faulty variants: the extent is rounded down; the extent gets a whole tile
\* of padding
round_up_Floor(x, tile) == (x \div tile) * tile
round_up_PlusTile(x, tile) == ((x + tile) \div tile) * tile

round_up(x, tile) == ((x + tile - 1) \div tile) * tile

G0 == round_up(N, TILE)
G1 == round_up(N, TILE)
\* faulty variant: the number of phases is rounded down
phases_Floor == N \div TILE

phases == (N + TILE - 1) \div TILE

Groups == (0 .. (G0 \div TILE) - 1) \X (0 .. (G1 \div TILE) - 1)
Locals == (0 .. TILE - 1) \X (0 .. TILE - 1)
Items == {<<g[1], g[2], l[1], l[2]>> : g \in Groups, l \in Locals}

GroupOf(t) == <<t[1], t[2]>>
ItemsOf(g) == {t \in Items : GroupOf(t) = g}
\* faulty variant: one pair of scratch tiles for the whole grid
TileOf_Shared(t) == <<0, 0>>
\* the scratch tiles a work-item addresses: the local_accessor instances of
\* its own work-group (lines 81-82)
TileOf(t) == GroupOf(t)
ly(t) == t[3]
lx(t) == t[4]
\* faulty variant: the global row leaves out the group's offset
gy_LocalOnly(t) == t[3]
gy(t) == t[1] * TILE + ly(t)
gx(t) == t[2] * TILE + lx(t)

\* ------------------------------------------------------------ host data
\* the messages of lines 48 and 62
NoGpuMsg == "No GPU found; falling back to default device."
AllocMsg == "USM allocation failed."

Offsets(n) == 0 .. n * n - 1

InitA(n) == [o \in Offsets(n) |-> ((o \div n) + (o % n)) % 7]

\* (i - j) % 5 on std::size_t: for i < j the difference is 2^64 - (j - i)
InitB(n) ==
    [o \in Offsets(n) |->
        LET i == o \div n
            j == o % n
        IN  IF i >= j THEN (i - j) % 5
            ELSE (Pow64Mod5 + 5 - ((j - i) % 5)) % 5]

ZeroC(n) == [o \in Offsets(n) |-> 0]

\* a C that was not zeroed: every element holds an old, non-zero value
StaleC(n) == [o \in Offsets(n) |-> o + 1]

\* Contents of C for the kernel run alone: zeroed as by line 73, and stale.
InitialCs(n) == { ZeroC(n), StaleC(n) }

Identity(n) == [o \in Offsets(n) |-> IF o \div n = o % n THEN 1 ELSE 0]
AllTwos(n) == [o \in Offsets(n) |-> 2]

\* Contents of A and B for the kernel run alone: the program's own
\* initialisation (lines 67-72), the same with the operands exchanged,
\* identity times all-twos and identity times the program's B.
InputPairs(n) ==
    { <<InitA(n), InitB(n)>>, <<InitB(n), InitA(n)>>, <<Identity(n), AllTwos(n)>>,
      <<Identity(n), InitB(n)>> }

Shapes ==
    { s \in (1 .. MaxN) \X (1 .. MaxT) :
        /\ s[1] * s[1] <= MaxCells
        /\ round_up(s[1], s[2]) * round_up(s[1], s[2]) <= MaxItems
        /\ (round_up(s[1], s[2]) \div s[2]) * (round_up(s[1], s[2]) \div s[2]) <= MaxGroups }

\* the shapes on which the kernel is run alone
KernelShapes ==
    { s \in Shapes : round_up(s[1], s[2]) * round_up(s[1], s[2]) <= MaxKernelItems }

Garbage == 0 .. MaxGarbage

\* ------------------------------------------------------------- the kernel
\* faulty variant: the phase offset is not scaled by the tile width
a_col_Unscaled(t) == p[t] + lx(t)
\* faulty variant: the row of B is taken from the column id of the work-item
b_row_FromLx(t) == p[t] * TILE + lx(t)

a_col(t) == p[t] * TILE + lx(t)
b_row(t) == p[t] * TILE + ly(t)

\* the bounds tests of lines 98, 99 and 110
\* faulty variants: the column test, or the row test, is missing
InRangeA_NoColTest(t) == gy(t) < N
InRangeC_NoColTest(t) == gy(t) < N

InRangeA_NoRowTest(t) == a_col(t) < N
InRangeB_NoRowTest(t) == gx(t) < N

InRangeA(t) == gy(t) < N /\ a_col(t) < N
InRangeB(t) == b_row(t) < N /\ gx(t) < N
InRangeC(t) == gy(t) < N /\ gx(t) < N

\* A read of a USM buffer at a flat offset: undefined (any value) outside the
\* allocation or after sycl::free.
GlobalRead(M, off) ==
    IF freed \/ off \notin DOMAIN M THEN Garbage ELSE {M[off]}

\* A read of a local-memory slot: undefined (any value) while never stored.
TileRead(tile, g, r, c) ==
    IF tile[g][<<r, c>>].ph = -1 THEN Garbage ELSE {tile[g][<<r, c>>].val}

\* faulty variant: the body of the k loop runs once, the loop does not go on
Accumulate_NoLoop(t, k, a) ==
    { a + x * y : x \in TileRead(tileA, TileOf(t), ly(t), k),
                  y \in TileRead(tileB, TileOf(t), k, lx(t)) }

\* the k loop of lines 103-105 from index k with accumulator a: the set of
\* values acc can end with (one value unless a read is undefined)
RECURSIVE Accumulate(_, _, _)
Accumulate(t, k, a) ==
    IF k >= TILE THEN {a}
    ELSE UNION { Accumulate(t, k + 1, a + x * y) :
                   x \in TileRead(tileA, TileOf(t), ly(t), k),
                   y \in TileRead(tileB, TileOf(t), k, lx(t)) }

\* position of a work-item entering the kernel: the loop test of line 94
\* faulty variant: a work-item outside the matrix returns at once
EntryPc_EarlyReturn(t) ==
    IF gy(t) >= N \/ gx(t) >= N THEN "done"
    ELSE IF 0 < phases THEN "load" ELSE "write"

EntryPc(t) == IF 0 < phases THEN "load" ELSE "write"

\* it.barrier(...) of line 101 / line 107: the group's work-items waiting at
\* the barrier go on once every work-item of the group has arrived
\* faulty variants: no barrier, a work-item that reaches the place goes on
FirstBarrierOpen_NoBarrier(g) == \E t \in ItemsOf(g) : pc[t] = "bar1"
SecondBarrierOpen_NoBarrier(g) == \E t \in ItemsOf(g) : pc[t] = "bar2"

FirstBarrierOpen(g) == \A t \in ItemsOf(g) : pc[t] = "bar1"
SecondBarrierOpen(g) == \A t \in ItemsOf(g) : pc[t] = "bar2"

Running(g) == started[g] /\ \E t \in ItemsOf(g) : pc[t] # "done"

\* faulty variant: the host does not wait for the submitted kernel
KernelComplete_NoWait == TRUE

\* the whole grid has executed: what q.submit(...).wait() waits for
KernelComplete ==
    \A g \in Groups : started[g] /\ \A t \in ItemsOf(g) : pc[t] = "done"

\* the host has passed q.submit of line 80
Submitted == hpc \in {"wait", "free", "exit"}

\* The device begins executing a work-group of the nd_range: any group not
\* yet begun, at any time after the submission.
StartGroup(g) ==
    /\ Submitted
    /\ ~started[g]
    /\ started' = [started EXCEPT ![g] = TRUE]
    /\ UNCHANGED <<alloc, diag, N, TILE, A, B, C0, C, hpc, freed, pc, p, acc, tileA, tileB,
                   arrivals, Cwrites, oob, uaf>>

\* LOAD: lines 95-99, then arrival at the barrier of line 101
Load(t) ==
    /\ started[GroupOf(t)]
    /\ pc[t] = "load"
    /\ \E va \in (IF InRangeA(t) THEN GlobalRead(A, gy(t) * N + a_col(t)) ELSE {0}),
          vb \in (IF InRangeB(t) THEN GlobalRead(B, b_row(t) * N + gx(t)) ELSE {0}) :
          /\ tileA' = [tileA EXCEPT ![TileOf(t)][<<ly(t), lx(t)>>] =
                                        [val |-> va, ph |-> p[t]]]
          /\ tileB' = [tileB EXCEPT ![TileOf(t)][<<ly(t), lx(t)>>] =
                                        [val |-> vb, ph |-> p[t]]]
    /\ oob' = (oob \/ (InRangeA(t) /\ (gy(t) >= N \/ a_col(t) >= N))
                   \/ (InRangeB(t) /\ (b_row(t) >= N \/ gx(t) >= N)))
    /\ uaf' = (uaf \/ (freed /\ (InRangeA(t) \/ InRangeB(t))))
    /\ pc' = [pc EXCEPT ![t] = "bar1"]
    /\ arrivals' = [arrivals EXCEPT ![t] = @ + 1]
    /\ UNCHANGED <<alloc, diag, N, TILE, A, B, C0, C, hpc, freed, started, p, acc, Cwrites>>

\* the barrier of line 101 releases the work-items waiting at it
Release1(g) ==
    /\ FirstBarrierOpen(g)
    /\ \E t \in ItemsOf(g) : pc[t] = "bar1"
    /\ pc' = [t \in Items |->
                IF GroupOf(t) = g /\ pc[t] = "bar1" THEN "compute" ELSE pc[t]]
    /\ UNCHANGED <<alloc, diag, N, TILE, A, B, C0, C, hpc, freed, started, p, acc, tileA, tileB,
                   arrivals, Cwrites, oob, uaf>>

\* COMPUTE: lines 103-105, then arrival at the barrier of line 107
Compute(t) ==
    /\ pc[t] = "compute"
    /\ \E a \in Accumulate(t, 0, acc[t]) : acc' = [acc EXCEPT ![t] = a]
    /\ pc' = [pc EXCEPT ![t] = "bar2"]
    /\ arrivals' = [arrivals EXCEPT ![t] = @ + 1]
    /\ UNCHANGED <<alloc, diag, N, TILE, A, B, C0, C, hpc, freed, started, p, tileA, tileB,
                   Cwrites, oob, uaf>>

\* the barrier of line 107 releases the work-items waiting at it; each does
\* ++p and the loop test of line 94
Release2(g) ==
    /\ SecondBarrierOpen(g)
    /\ \E t \in ItemsOf(g) : pc[t] = "bar2"
    /\ p' = [t \in Items |->
                IF GroupOf(t) = g /\ pc[t] = "bar2" THEN p[t] + 1 ELSE p[t]]
    /\ pc' = [t \in Items |->
                IF GroupOf(t) = g /\ pc[t] = "bar2"
                THEN (IF p[t] + 1 < phases THEN "load" ELSE "write")
                ELSE pc[t]]
    /\ UNCHANGED <<alloc, diag, N, TILE, A, B, C0, C, hpc, freed, started, acc, tileA, tileB,
                   arrivals, Cwrites, oob, uaf>>

\* faulty variant: the write-back adds acc to what C holds
StoredValue_AddToC(t) ==
    IF (gy(t) * N + gx(t)) \in DOMAIN C THEN C[gy(t) * N + gx(t)] + acc[t]
    ELSE acc[t]

\* the value the write-back of line 111 stores
StoredValue(t) == acc[t]

\* faulty variant: the write-back stores into an input matrix
OutputBuffer_A == "A"

\* the buffer the write-back of line 111 stores into
OutputBuffer == "C"

\* write-back: lines 110-112
Write(t) ==
    /\ started[GroupOf(t)]
    /\ pc[t] = "write"
    /\ IF InRangeC(t) /\ (gy(t) * N + gx(t)) \in DOMAIN C
       THEN /\ C' = IF OutputBuffer = "C"
                    THEN [C EXCEPT ![gy(t) * N + gx(t)] = StoredValue(t)] ELSE C
            /\ A' = IF OutputBuffer = "A"
                    THEN [A EXCEPT ![gy(t) * N + gx(t)] = StoredValue(t)] ELSE A
            /\ B' = IF OutputBuffer = "B"
                    THEN [B EXCEPT ![gy(t) * N + gx(t)] = StoredValue(t)] ELSE B
            /\ Cwrites' = IF OutputBuffer = "C"
                          THEN [Cwrites EXCEPT ![gy(t) * N + gx(t)] = Append(@, t)]
                          ELSE Cwrites
       ELSE UNCHANGED <<A, B, C, Cwrites>>
    /\ oob' = (oob \/ (InRangeC(t) /\ (gy(t) >= N \/ gx(t) >= N)))
    /\ uaf' = (uaf \/ (freed /\ InRangeC(t)))
    /\ pc' = [pc EXCEPT ![t] = "done"]
    /\ UNCHANGED <<alloc, diag, N, TILE, C0, hpc, freed, started, p, acc, tileA, tileB,
                   arrivals>>

\* --------------------------------------------------------------- the host
\* q.submit(...) of line 80
Submit ==
    /\ hpc = "submit"
    /\ hpc' = "wait"
    /\ UNCHANGED <<alloc, diag, N, TILE, A, B, C0, C, freed, started, pc, p, acc, tileA, tileB,
                   arrivals, Cwrites, oob, uaf>>

\* .wait() of line 114 returns
WaitReturn ==
    /\ hpc = "wait"
    /\ KernelComplete
    /\ hpc' = "free"
    /\ UNCHANGED <<alloc, diag, N, TILE, A, B, C0, C, freed, started, pc, p, acc, tileA, tileB,
                   arrivals, Cwrites, oob, uaf>>

\* sycl::free of A, B and C, lines 119-121, and return 0
Free ==
    /\ hpc = "free"
    /\ freed' = TRUE
    /\ hpc' = "exit"
    /\ UNCHANGED <<alloc, diag, N, TILE, A, B, C0, C, started, pc, p, acc, tileA, tileB,
                   arrivals, Cwrites, oob, uaf>>

\* ------------------------------------------------------------------ spec
\* what is fixed by N and TILE when the kernel is submitted: nothing of the
\* grid has run
GridAtSubmit ==
    /\ C0 = C
    /\ hpc = "submit"
    /\ alloc = [b \in {"A", "B", "C"} |-> TRUE]
    /\ freed = FALSE
    /\ started = [g \in Groups |-> FALSE]
    /\ pc = [t \in Items |-> EntryPc(t)]
    /\ p = [t \in Items |-> 0]
    /\ acc = [t \in Items |-> 0]
    /\ tileA = [g \in Groups |-> [l \in Locals |-> [val |-> 0, ph |-> -1]]]
    /\ tileB = [g \in Groups |-> [l \in Locals |-> [val |-> 0, ph |-> -1]]]
    /\ arrivals = [t \in Items |-> 0]
    /\ Cwrites = [o \in Offsets(N) |-> <<>>]
    /\ oob = FALSE
    /\ uaf = FALSE

\* the state of main() on reaching q.submit (lines 36-77): the matrices as
\* lines 67-73 fill them, a GPU found or the default device taken
Init ==
    /\ \E s \in Shapes : N = s[1] /\ TILE = s[2]
    /\ A = InitA(N) /\ B = InitB(N) /\ C = ZeroC(N)
    /\ diag \in { {}, {NoGpuMsg} }
    /\ GridAtSubmit

\* the kernel of lines 80-114 about to be submitted on buffers holding other
\* contents than main() gives them
KernelInit ==
    /\ \E s \in KernelShapes : N = s[1] /\ TILE = s[2]
    /\ \E ab \in InputPairs(N) : A = ab[1] /\ B = ab[2]
    /\ C \in InitialCs(N)
    /\ diag \in { {}, {NoGpuMsg} }
    /\ GridAtSubmit

Next ==
    \/ Submit
    \/ WaitReturn
    \/ Free
    \/ \E g \in Groups : StartGroup(g)
    \/ \E g \in Groups : Release1(g)
    \/ \E g \in Groups : Release2(g)
    \/ \E t \in Items : Load(t)
    \/ \E t \in Items : Compute(t)
    \/ \E t \in Items : Write(t)

\* the program from q.submit on, under every schedule of the grid
Spec == Init /\ [][Next]_vars

\* the kernel on the further inputs, under every schedule of the grid
KernelSpec == KernelInit /\ [][Next]_vars

\* the scheduler runs some enabled step whenever there is one
FairSpec == KernelSpec /\ WF_vars(Next)

\* ------------------------------------------------- the explored device
\* the groups begun and not finished, and their work-items
InFlightGroups == {g \in Groups : Running(g)}
InFlight == Cardinality(InFlightGroups) * TILE * TILE

\* the groups in flight fit the lanes of the device; one group always does
LanesSuffice ==
    \/ InFlight <= MaxLanes
    \/ Cardinality(InFlightGroups) <= 1

LaneNext == Next /\ LanesSuffice'

\* Spec on a device of MaxLanes lanes
LaneSpec == Init /\ [][LaneNext]_vars

\* ------------------------------------------------------- the host's setup

\* sycl::device{gpu_selector_v} of line 46: it returns a device, or throws.
\* What it throws is the library's choice: the handler of line 47 catches a
\* std::runtime_error and falls back; any other exception leaves main.
SelectGpu ==
    /\ hpc = "select"
    /\ \/ /\ hpc' = "alloc"
          /\ diag' = diag
       \/ /\ hpc' = "fallback"
          /\ diag' = diag \cup {NoGpuMsg}
       \/ /\ hpc' = "aborted"
          /\ diag' = diag
    /\ UNCHANGED <<N, TILE, A, B, C, C0, alloc, freed, started, pc, p, acc,
                   tileA, tileB, arrivals, Cwrites, oob, uaf>>

\* sycl::device{default_selector_v} of line 49, outside any try block
SelectDefault ==
    /\ hpc = "fallback"
    /\ \/ /\ hpc' = "alloc"
          /\ diag' = diag
       \/ /\ hpc' = "aborted"
          /\ diag' = diag
    /\ UNCHANGED <<N, TILE, A, B, C, C0, alloc, freed, started, pc, p, acc,
                   tileA, tileB, arrivals, Cwrites, oob, uaf>>

\* the three malloc_shared calls of lines 57-59: each returns a buffer or null
Allocate ==
    /\ hpc = "alloc"
    /\ \E a \in BOOLEAN, b \in BOOLEAN, c \in BOOLEAN :
          alloc' = [x \in {"A", "B", "C"} |->
                      IF x = "A" THEN a ELSE IF x = "B" THEN b ELSE c]
    /\ hpc' = "check"
    /\ UNCHANGED <<N, TILE, A, B, C, C0, diag, freed, started, pc, p, acc,
                   tileA, tileB, arrivals, Cwrites, oob, uaf>>

\* the test of line 61
AllocFailed == ~alloc["A"] \/ ~alloc["B"] \/ ~alloc["C"]

\* lines 61-64: the diagnostic and return 1, or on to the initialisation
CheckAlloc ==
    /\ hpc = "check"
    /\ IF AllocFailed
       THEN /\ diag' = diag \cup {AllocMsg}
            /\ hpc' = "failed"
       ELSE /\ diag' = diag
            /\ hpc' = "fill"
    /\ UNCHANGED <<N, TILE, A, B, C, C0, alloc, freed, started, pc, p, acc,
                   tileA, tileB, arrivals, Cwrites, oob, uaf>>

\* lines 66-77: the matrices are filled (a buffer that was not allocated
\* holds nothing)
FillMatrices ==
    /\ hpc = "fill"
    /\ A' = IF alloc["A"] THEN InitA(N) ELSE <<>>
    /\ B' = IF alloc["B"] THEN InitB(N) ELSE <<>>
    /\ C' = IF alloc["C"] THEN ZeroC(N) ELSE <<>>
    /\ C0' = IF alloc["C"] THEN ZeroC(N) ELSE <<>>
    /\ hpc' = "submit"
    /\ UNCHANGED <<N, TILE, alloc, diag, freed, started, pc, p, acc,
                   tileA, tileB, arrivals, Cwrites, oob, uaf>>

\* the state of main() after line 41, before the device is selected
SetupInit ==
    /\ \E s \in Shapes : N = s[1] /\ TILE = s[2]
    /\ A = <<>> /\ B = <<>> /\ C = <<>> /\ C0 = <<>>
    /\ hpc = "select"
    /\ alloc = [b \in {"A", "B", "C"} |-> FALSE]
    /\ diag = {}
    /\ freed = FALSE
    /\ started = [g \in Groups |-> FALSE]
    /\ pc = [t \in Items |-> EntryPc(t)]
    /\ p = [t \in Items |-> 0]
    /\ acc = [t \in Items |-> 0]
    /\ tileA = [g \in Groups |-> [l \in Locals |-> [val |-> 0, ph |-> -1]]]
    /\ tileB = [g \in Groups |-> [l \in Locals |-> [val |-> 0, ph |-> -1]]]
    /\ arrivals = [t \in Items |-> 0]
    /\ Cwrites = [o \in Offsets(N) |-> <<>>]
    /\ oob = FALSE
    /\ uaf = FALSE

SetupNext ==
    \/ SelectGpu
    \/ SelectDefault
    \/ Allocate
    \/ CheckAlloc
    \/ FillMatrices
    \/ Next

\* the whole of main(), from the selection of the device on
SetupSpec == SetupInit /\ [][SetupNext]_vars

\* SetupSpec on a device of MaxLanes lanes
LaneSetupSpec == SetupInit /\ [][SetupNext /\ LanesSuffice']_vars

\* ------------------------------------------------------------ references
\* ref of verify_reference for element (i, j): the k loop from index k
RECURSIVE DotFrom(_, _, _)
DotFrom(i, j, k) ==
    IF k >= N THEN 0
    ELSE A[i * N + k] * B[k * N + j] + DotFrom(i, j, k + 1)

AllItemsDone ==
    /\ \A g \in Groups : started[g]
    /\ \A t \in Items : pc[t] = "done"

\* ----------------------------------------------------------------- C1
\* C1: once the kernel invocation has completed, every C[i,j] with
\* 0 <= i,j < N equals the sum over k in [0,N) of A[i,k]*B[k,j]; for N = 1,
\* C[0,0] = A[0,0]*B[0,0].
C1_Product ==
    AllItemsDone =>
        /\ \A i \in 0 .. N - 1 : \A j \in 0 .. N - 1 :
              C[i * N + j] = DotFrom(i, j, 0)
        /\ (N = 1 => C[0] = A[0] * B[0])

\* a completed run with N not a multiple of TILE and a non-zero product
C1_Witness ==
    /\ AllItemsDone
    /\ N = 3 /\ TILE = 2
    /\ A = InitA(3) /\ B = InitB(3)
    /\ C[0] = 5 /\ C[8] = 8

\* ----------------------------------------------------------------- C2
ExpectedWriter(o) ==
    LET i == o \div N
        j == o % N
    IN  <<i \div TILE, j \div TILE, i % TILE, j % TILE>>

\* C2: each C[i,j] is written exactly once during the invocation, by
\* work-item (i mod T, j mod T) of work-group (i div T, j div T); no two
\* work-items ever write the same element.
C2_WrittenOnce ==
    \A o \in Offsets(N) :
        /\ Len(Cwrites[o]) <= 1
        /\ (Len(Cwrites[o]) = 1 => Cwrites[o][1] = ExpectedWriter(o))
        /\ (AllItemsDone => Len(Cwrites[o]) = 1)

\* a completed run of four work-groups, some of whose work-items lie outside
\* the matrix
C2_Witness ==
    /\ AllItemsDone
    /\ N = 3 /\ TILE = 2
    /\ Cwrites[5] = << <<0, 1, 1, 0>> >>
    /\ Cwrites[8] = << <<1, 1, 0, 0>> >>

\* ----------------------------------------------------------------- C3
\* C3: no work-item of the padded grid accesses global memory out of range:
\* every read of A or B and every write of C uses a row < N and a column < N.
C3_NoOutOfRange == oob = FALSE

\* a work-item whose source column p*T+lx is outside the matrix has done its
\* LOAD, and a work-item outside the matrix has passed the write-back
C3_Witness ==
    /\ N % TILE # 0
    /\ \E t \in Items : /\ pc[t] = "bar1"
                        /\ t[1] * TILE + t[3] < N
                        /\ p[t] * TILE + t[4] >= N
    /\ \E u \in Items : pc[u] = "done" /\ u[2] * TILE + u[4] >= N

\* ----------------------------------------------------------------- C4
\* work-item u has completed its LOAD stores of phase q
StoredPhase(u, q) == p[u] > q \/ (p[u] = q /\ pc[u] # "load")

\* C4: whenever a work-item is in the COMPUTE step of phase p, every slot
\* tileA[ly][k] and tileB[k][lx] it reads holds the value stored in the LOAD
\* of the same phase p (not unwritten, not of phase p-1), and all T*T
\* work-items of its group have completed their phase-p stores.
C4_ReadsSeeSamePhase ==
    \A t \in Items :
        pc[t] = "compute" =>
            /\ \A k \in 0 .. TILE - 1 :
                  /\ tileA[<<t[1], t[2]>>][<<t[3], k>>].ph = p[t]
                  /\ tileB[<<t[1], t[2]>>][<<k, t[4]>>].ph = p[t]
            /\ \A u \in Items :
                  (u[1] = t[1] /\ u[2] = t[2]) => StoredPhase(u, p[t])

\* a work-item of a 2x2 group is about to read the tiles in the second phase
C4_Witness ==
    /\ TILE = 2 /\ N = 3
    /\ \E t \in Items : pc[t] = "compute" /\ p[t] = 1 /\ t[3] = 1 /\ t[4] = 0

\* ----------------------------------------------------------------- C5
\* work-item u has finished its COMPUTE reads of phase q
ComputedPhase(u, q) == p[u] > q \/ (p[u] = q /\ pc[u] = "bar2")

\* C5: no work-item stores into tileA or tileB for phase q+1 while a
\* work-item of the same group has not finished its COMPUTE reads of phase q:
\* a slot holding a phase q+1 store implies that all work-items of the group
\* have arrived at the second barrier of phase q.
C5_NoEarlyOverwrite ==
    \A g \in Groups : \A l \in Locals : \A u \in Items :
        (u[1] = g[1] /\ u[2] = g[2]) =>
            /\ (tileA[g][l].ph >= 1 => ComputedPhase(u, tileA[g][l].ph - 1))
            /\ (tileB[g][l].ph >= 1 => ComputedPhase(u, tileB[g][l].ph - 1))

\* one work-item of a 2x2 group has stored for the second phase while another
\* has not yet done so
C5_Witness ==
    /\ TILE = 2 /\ N = 3
    /\ \E t \in Items, u \in Items :
          /\ t[1] = u[1] /\ t[2] = u[2]
          /\ tileA[<<t[1], t[2]>>][<<t[3], t[4]>>].ph = 1
          /\ pc[u] = "load" /\ p[u] = 1

\* ----------------------------------------------------------------- C6
CeilDiv(n, t) == IF n % t = 0 THEN n \div t ELSE (n \div t) + 1

\* C6: every work-item of every launched group, also one whose global row or
\* column is >= N, arrives at both barriers in every phase (2*ceil(N/T)
\* arrivals in all), and no work-item leaves the phase loop or finishes
\* before all work-items of its group have arrived at the last barrier.
C6_AllArrive ==
    \A t \in Items :
        /\ arrivals[t] <= 2 * CeilDiv(N, TILE)
        /\ (started[<<t[1], t[2]>>] /\ pc[t] \in {"write", "done"}) =>
              \A u \in Items :
                  (u[1] = t[1] /\ u[2] = t[2]) =>
                      arrivals[u] = 2 * CeilDiv(N, TILE)
        /\ pc[t] = "load" => arrivals[t] = 2 * p[t]
        /\ pc[t] \in {"bar1", "compute"} => arrivals[t] = 2 * p[t] + 1
        /\ pc[t] = "bar2" => arrivals[t] = 2 * p[t] + 2

\* a work-item outside the matrix has finished after arriving at all four
\* barriers of a two-phase run
C6_Witness ==
    /\ N = 3 /\ TILE = 2
    /\ \E t \in Items :
          /\ t[1] * TILE + t[3] >= N
          /\ t[2] * TILE + t[4] >= N
          /\ pc[t] = "done"
          /\ arrivals[t] = 4

\* ----------------------------------------------------------------- C7
\* C7: under fair scheduling every invocation terminates: no group deadlocks
\* at a barrier, every work-item reaches "done" after ceil(N/T) phases, and
\* the host returns from the invocation with every element of C written.
C7_Terminates ==
    <>( /\ hpc = "exit"
        /\ AllItemsDone
        /\ \A t \in Items : p[t] = CeilDiv(N, TILE)
        /\ \A o \in Offsets(N) : Len(Cwrites[o]) >= 1 )

\* the host has returned from a two-phase run of four groups
C7_Witness ==
    /\ hpc = "exit"
    /\ N = 2 /\ TILE = 1
    /\ \A t \in Items : pc[t] = "done" /\ p[t] = 2
    /\ \A o \in Offsets(N) : Len(Cwrites[o]) = 1

\* ----------------------------------------------------------------- C8
\* C8: the host proceeds past the invocation, and frees A, B and C, only
\* after every work-item of every group has finished; no work-item reads A
\* or B or writes C after the buffers are released.
C8_NoPartialResult ==
    /\ (hpc \in {"free", "exit"} =>
           /\ AllItemsDone
           /\ \A o \in Offsets(N) : Len(Cwrites[o]) = 1)
    /\ (freed => AllItemsDone)
    /\ uaf = FALSE

\* the buffers have been freed after a run of four groups
C8_Witness ==
    /\ freed /\ hpc = "exit"
    /\ Cardinality(Groups) = 4
    /\ \A g \in Groups : started[g]

\* ----------------------------------------------------------------- C9
\* the values the LOAD step stores for row i / column j and source index c
LoadedA(i, c) == IF i < N /\ c < N THEN A[i * N + c] ELSE 0
LoadedB(r, j) == IF r < N /\ j < N THEN B[r * N + j] ELSE 0

\* acc of the work-item of element (i, j) run alone with tile width tile:
\* what the loops of lines 94-108 add from phase q, index k on
RECURSIVE SerialAcc(_, _, _, _, _)
SerialAcc(i, j, tile, q, k) ==
    IF q >= CeilDiv(N, tile) THEN 0
    ELSE IF k >= tile THEN SerialAcc(i, j, tile, q + 1, 0)
    ELSE LoadedA(i, q * tile + k) * LoadedB(q * tile + k, j)
             + SerialAcc(i, j, tile, q, k + 1)

SerialKernel(tile) ==
    [o \in Offsets(N) |-> SerialAcc(o \div N, o % N, tile, 0, 0)]

\* C9: for fixed A, B, N and T the final C is the same in every execution,
\* whatever the order of the groups and the interleaving of the work-items:
\* it is the C of the one-work-item-at-a-time run.
C9_Deterministic ==
    /\ \A o \in Offsets(N) :
          Cwrites[o] # <<>> => C[o] = SerialAcc(o \div N, o % N, TILE, 0, 0)
    /\ AllItemsDone => C = SerialKernel(TILE)

\* a run of four groups of four work-items on the program's matrices has
\* completed
C9_Witness ==
    /\ AllItemsDone
    /\ N = 3 /\ TILE = 2
    /\ A = InitA(3) /\ B = InitB(3)
    /\ C[3] = 8 /\ C[6] = 11

\* ---------------------------------------------------------------- C10
\* the tile widths compared: every width of the model, one width larger than
\* any matrix, and the widths 16 and 32 of the specification
RefTiles == (1 .. MaxN + 1) \cup {16, 32}

\* C10: for fixed A, B and N the final C is the same for every tile size
\* T >= 1 (T dividing N or not, smaller or larger than N).
C10_TileIndependent ==
    AllItemsDone => \A tile \in RefTiles : C = SerialKernel(tile)

\* a completed run whose tile width does not divide N
C10_Witness ==
    /\ AllItemsDone
    /\ N = 3 /\ TILE = 2
    /\ A = InitA(3) /\ B = InitB(3)
    /\ C = SerialKernel(1) /\ C = SerialKernel(16)
    /\ C[1] = 2 /\ C[7] = 4

\* ---------------------------------------------------------------- C11
\* C11: the final value of every element of C is independent of the contents
\* of C before the invocation: an element not yet written still holds its
\* initial value, a written one holds the product whatever C held before,
\* and at completion every element is written.
C11_InitialCIrrelevant ==
    \A o \in Offsets(N) :
        /\ (Cwrites[o] = <<>> => C[o] = C0[o])
        /\ (Cwrites[o] # <<>> => C[o] = DotFrom(o \div N, o % N, 0))
        /\ (AllItemsDone => Cwrites[o] # <<>>)

\* a run that started from a stale, non-zero C has completed and has
\* replaced the stale values by the product
C11_Witness ==
    /\ AllItemsDone
    /\ N = 2 /\ TILE = 1
    /\ C0 = StaleC(2)
    /\ A = InitA(2) /\ B = InitB(2)
    /\ C0[1] = 2 /\ C[1] = 0
    /\ C0[2] = 3 /\ C[2] = 2

\* ---------------------------------------------------------------- C12
\* what one step may do to the three buffers
C12_Step ==
    hpc \in {"submit", "wait", "free", "exit"} =>
        /\ A' = A
        /\ B' = B
        /\ \A t \in Items :
              (/\ pc[t] = "write"
               /\ pc'[t] = "done"
               /\ (t[1] * TILE + t[3] >= N \/ t[2] * TILE + t[4] >= N))
              => (C' = C /\ Cwrites' = Cwrites)
        /\ (C' # C \/ Cwrites' # Cwrites) =>
              \E t \in Items :
                  LET off == (t[1] * TILE + t[3]) * N + t[2] * TILE + t[4]
                  IN  /\ pc[t] = "write"
                      /\ pc'[t] = "done"
                      /\ t[1] * TILE + t[3] < N
                      /\ t[2] * TILE + t[4] < N
                      /\ C' = [C EXCEPT ![off] = acc[t]]

\* C12: the kernel leaves A and B unchanged throughout the invocation; the
\* write-back step of a work-item whose global row or column is >= N writes
\* nothing; and C changes only by C[gy*N+gx] = acc of a work-item with
\* gy < N and gx < N.
C12_Frame == [][C12_Step]_vars

\* all sixteen work-items of a 4x4 grid over a 3x3 matrix have passed the
\* write-back: nine elements were written, A and B are as submitted
C12_Witness ==
    /\ AllItemsDone
    /\ N = 3 /\ TILE = 2
    /\ A = InitA(3) /\ B = InitB(3)
    /\ pc[<<1, 1, 1, 1>>] = "done" /\ pc[<<0, 1, 0, 1>>] = "done"
    /\ \A o \in Offsets(N) : Len(Cwrites[o]) = 1

\* ---------------------------------------------------------------- C13
\* C13: a setup failure (no device found, or one of the three allocations
\* failing) is fatal and surfaced with a diagnostic before the kernel runs:
\* no work-item executes and the program does not report success.
\* Any line the program has written to stderr counts as the diagnostic here.
\* The allocation failure has one ("USM allocation failed.", line 62); a
\* device selection whose exception nothing catches (line 46 catches
\* std::runtime_error only, line 49 is outside any try block) leaves main()
\* with none.
C13_SetupFailureDiagnosed ==
    LET untouched ==
            /\ \A g \in Groups : ~started[g]
            /\ \A t \in Items : arrivals[t] = 0 /\ pc[t] \in {"load", "write"}
            /\ \A o \in Offsets(N) : Cwrites[o] = <<>>
        allocated == alloc["A"] /\ alloc["B"] /\ alloc["C"]
        tested == hpc \in {"fill", "submit", "wait", "free", "exit", "failed"}
    IN  /\ hpc \in {"aborted", "failed"} => (untouched /\ diag # {})
        /\ hpc = "failed" => (AllocMsg \in diag /\ ~allocated)
        /\ (tested /\ ~allocated) => (hpc = "failed" /\ untouched)
        /\ (tested /\ allocated) => (hpc # "failed" /\ AllocMsg \notin diag)
        /\ ~Submitted => untouched

\* ---------------------------------------------------------------- C14
\* C14: when the tile is at least as large as the matrix (TILE >= N), the
\* grid is exactly one work-group that runs exactly one phase, every scratch
\* entry stored for a row or column >= N holds 0, and C equals the
\* triple-loop reference product in every in-range element.
C14_TileCoversMatrix ==
    TILE >= N =>
        /\ Groups = {<<0, 0>>}
        /\ Cardinality(Items) = TILE * TILE
        /\ phases = 1
        /\ \A t \in Items :
              /\ p[t] <= 1
              /\ arrivals[t] <= 2
              /\ pc[t] \in {"write", "done"} => (p[t] = 1 /\ arrivals[t] = 2)
        /\ \A g \in Groups, l \in Locals :
              (l[1] >= N \/ l[2] >= N) =>
                  /\ tileA[g][l].ph # -1 => tileA[g][l] = [val |-> 0, ph |-> 0]
                  /\ tileB[g][l].ph # -1 => tileB[g][l] = [val |-> 0, ph |-> 0]
        /\ AllItemsDone =>
              \A i \in 0 .. N - 1, j \in 0 .. N - 1 :
                  C[i * N + j] = DotFrom(i, j, 0)

\* N = 1 under a 2 x 2 tile: the three scratch entries outside the matrix
\* were stored as 0 and the only element is the product
C14_Witness ==
    /\ AllItemsDone /\ N = 1 /\ TILE = 2
    /\ A = Identity(1) /\ B = AllTwos(1)
    /\ \A l \in {<<0, 1>>, <<1, 0>>, <<1, 1>>} :
          /\ tileA[<<0, 0>>][l] = [val |-> 0, ph |-> 0]
          /\ tileB[<<0, 0>>][l] = [val |-> 0, ph |-> 0]
    /\ tileA[<<0, 0>>][<<0, 0>>].val = 1
    /\ tileB[<<0, 0>>][<<0, 0>>].val = 2
    /\ C[0] = 2

\* ---------------------------------------------------------------- C15
\* C15: when A is the N x N identity matrix, the completed invocation leaves
\* C equal to B element by element, for every N and every TILE.
C15_IdentityLeft ==
    (AllItemsDone /\ A = Identity(N)) =>
        \A o \in Offsets(N) : C[o] = B[o]

\* the identity times a matrix that is not symmetric, over four groups
C15_Witness ==
    /\ AllItemsDone /\ N = 2 /\ TILE = 1
    /\ A = Identity(2) /\ B = InitB(2)
    /\ C = InitB(2)
    /\ C[1] # C[2]
    /\ C0 = StaleC(2)

\* ---------------------------------------------------------------- C16
\* C16: round_up(N, T) is ceil(N/T)*T, the smallest multiple of T that is
\* >= N; the number of phases is ceil(N/T); and the launched grid is
\* ceil(N/T) x ceil(N/T) work-groups of exactly T x T work-items each, whose
\* global coordinates cover all of [0,N) x [0,N).
C16_GridDerivation ==
    /\ G0 = CeilDiv(N, TILE) * TILE
    /\ G1 = CeilDiv(N, TILE) * TILE
    /\ phases = CeilDiv(N, TILE)
    /\ Groups = (0 .. CeilDiv(N, TILE) - 1) \X (0 .. CeilDiv(N, TILE) - 1)
    /\ Cardinality(Items) = G0 * G1
    /\ \A t \in Items : p[t] <= CeilDiv(N, TILE)
    \* N and TILE never change: the rest is compared when the grid is launched
    /\ hpc = "submit" =>
          /\ \A g \in Groups : Cardinality(ItemsOf(g)) = TILE * TILE
          /\ \A i \in 0 .. G0 - 1, j \in 0 .. G1 - 1 :
                Cardinality({t \in Items : gy(t) = i /\ gx(t) = j}) = 1
          /\ \A i \in 0 .. N - 1, j \in 0 .. N - 1 :
                \E t \in Items : gy(t) = i /\ gx(t) = j
          /\ \A x \in 1 .. MaxArith, tile \in 1 .. MaxArith :
                /\ round_up(x, tile) = CeilDiv(x, tile) * tile
                /\ round_up(x, tile) % tile = 0
                /\ round_up(x, tile) >= x
                /\ \A m \in 0 .. 2 * MaxArith :
                      (m % tile = 0 /\ m >= x) => m >= round_up(x, tile)

\* N = 3 under tile 2: extent 4, two phases run to the end, four groups
C16_Witness ==
    /\ N = 3 /\ TILE = 2
    /\ G0 = 4 /\ G1 = 4 /\ phases = 2
    /\ Cardinality(Groups) = 4 /\ Cardinality(Items) = 16
    /\ \A g \in Groups : started[g]
    /\ \A t \in Items : pc[t] = "done" /\ p[t] = 2

\* ---------------------------------------------------------------- C17
\* C17: when all work-items of a group have passed the first barrier of
\* phase q, every slot [ly][lx] of the group holds the clamped load of that
\* phase: tileA[ly][lx] = A[gy][q*T+lx] if gy < N and q*T+lx < N and 0
\* otherwise, tileB[ly][lx] = B[q*T+ly][gx] if q*T+ly < N and gx < N and 0
\* otherwise, with gy, gx the global row and column of work-item (ly, lx).
C17_ClampedLoad ==
    \A g \in Groups, q \in 0 .. phases - 1 :
        (\A u \in ItemsOf(g) : p[u] = q /\ pc[u] \in {"compute", "bar2"}) =>
            \A l \in Locals :
                LET row == g[1] * TILE + l[1]
                    col == g[2] * TILE + l[2]
                    ac  == q * TILE + l[2]
                    br  == q * TILE + l[1]
                IN  /\ tileA[g][l].ph = q
                    /\ tileB[g][l].ph = q
                    /\ tileA[g][l].val =
                          IF row < N /\ ac < N THEN A[row * N + ac] ELSE 0
                    /\ tileB[g][l].val =
                          IF br < N /\ col < N THEN B[br * N + col] ELSE 0

\* group (1, 1) of N = 3 under tile 2 in its second phase: slot [0][0] holds
\* A[2][2] and B[2][2], every other slot is clamped
C17_Witness ==
    /\ N = 3 /\ TILE = 2 /\ A = InitA(3) /\ B = InitB(3)
    /\ \A u \in ItemsOf(<<1, 1>>) : p[u] = 1 /\ pc[u] = "compute"
    /\ tileA[<<1, 1>>][<<0, 0>>] = [val |-> 4, ph |-> 1]
    /\ tileB[<<1, 1>>][<<0, 0>>] = [val |-> 0, ph |-> 1]
    /\ \A l \in {<<0, 1>>, <<1, 0>>, <<1, 1>>} :
          tileA[<<1, 1>>][l].val = 0 /\ tileB[<<1, 1>>][l].val = 0

\* ---------------------------------------------------------------- C18
\* the sum of the first n terms A[i][k]*B[k][j], k = 0 .. n-1
RECURSIVE PrefixDot(_, _, _)
PrefixDot(i, j, n) ==
    IF n <= 0 THEN 0
    ELSE PrefixDot(i, j, n - 1) + A[i * N + (n - 1)] * B[(n - 1) * N + j]

Min(a, b) == IF a < b THEN a ELSE b

\* C18: accumulation is phase-major then k-major and its partial sums are
\* exact prefixes: for a work-item with gy < N and gx < N, after the COMPUTE
\* step of phase q acc is the sum over k < min((q+1)*T, N) of
\* A[gy][k]*B[k][gx], the terms being added in increasing order of k (the k
\* loop entered at index k0 with the prefix below q*T+k0 ends with the prefix
\* of the phase); clamped entries contribute nothing.
C18_PrefixSums ==
    \A t \in Items :
        LET i == t[1] * TILE + t[3]
            j == t[2] * TILE + t[4]
        IN  (i < N /\ j < N) =>
              /\ pc[t] = "bar2" =>
                    acc[t] = PrefixDot(i, j, Min((p[t] + 1) * TILE, N))
              /\ pc[t] \in {"load", "bar1", "compute"} =>
                    acc[t] = PrefixDot(i, j, Min(p[t] * TILE, N))
              /\ pc[t] \in {"write", "done"} =>
                    (p[t] = phases /\ acc[t] = PrefixDot(i, j, N))
              /\ pc[t] = "compute" =>
                    \A k0 \in 0 .. TILE - 1 :
                        Accumulate(t, k0, PrefixDot(i, j, Min(p[t] * TILE + k0, N)))
                            = {PrefixDot(i, j, Min((p[t] + 1) * TILE, N))}

\* work-item (0,0,0,0) of N = 3 under tile 2 (element C[0][0]) at the second
\* barrier of the first phase: acc holds the terms k = 0, 1 and not yet k = 2
C18_Witness ==
    /\ N = 3 /\ TILE = 2 /\ A = InitA(3) /\ B = InitB(3)
    /\ pc[<<0, 0, 0, 0>>] = "bar2" /\ p[<<0, 0, 0, 0>>] = 0
    /\ acc[<<0, 0, 0, 0>>] = A[0] * B[0] + A[1] * B[3]
    /\ acc[<<0, 0, 0, 0>>] = 1
    /\ A[2] * B[6] = 4

\* ---------------------------------------------------------------- C19
\* what the COMPUTE step of work-item t adds, read from the tiles of t's own
\* group: the terms k .. TILE-1
RECURSIVE OwnTileDot(_, _)
OwnTileDot(t, k) ==
    IF k >= TILE THEN 0
    ELSE tileA[<<t[1], t[2]>>][<<t[3], k>>].val
             * tileB[<<t[1], t[2]>>][<<k, t[4]>>].val
         + OwnTileDot(t, k + 1)

\* what one step may do to, and take from, the scratch tiles
C19_Step ==
    /\ \A g \in Groups, l \in Locals :
          (tileA'[g][l] # tileA[g][l] \/ tileB'[g][l] # tileB[g][l]) =>
              LET t == <<g[1], g[2], l[1], l[2]>>
              IN  /\ pc[t] = "load" /\ pc'[t] = "bar1"
                  /\ tileA[g][l].ph = p[t] - 1 /\ tileA'[g][l].ph = p[t]
                  /\ tileB[g][l].ph = p[t] - 1 /\ tileB'[g][l].ph = p[t]
    /\ \A t \in Items :
          (pc[t] = "load" /\ pc'[t] = "bar1") =>
              /\ tileA'[<<t[1], t[2]>>][<<t[3], t[4]>>].ph = p[t]
              /\ tileB'[<<t[1], t[2]>>][<<t[3], t[4]>>].ph = p[t]
    /\ \A t \in Items :
          (pc[t] = "compute" /\ pc'[t] = "bar2") =>
              acc'[t] = acc[t] + OwnTileDot(t, 0)

\* C19: the scratch tiles of a group are read and written only by work-items
\* of that group, and slot [ly][lx] of tileA and of tileB is written only by
\* work-item (ly, lx) of the group, exactly once per phase: no slot has two
\* writers and groups do not communicate through scratch memory.
C19_ScratchOwnership == [][C19_Step]_vars

\* N = 3 under tile 2, two groups of four work-items side by side: group
\* (1,1) has stored for its second phase while group (0,0) computes its
\* first, each in its own slots
C19_Witness ==
    /\ N = 3 /\ TILE = 2 /\ A = InitA(3) /\ B = InitB(3)
    /\ \A t \in ItemsOf(<<0, 0>>) : pc[t] = "compute" /\ p[t] = 0
    /\ pc[<<1, 1, 0, 0>>] = "bar1" /\ p[<<1, 1, 0, 0>>] = 1
    /\ pc[<<1, 1, 1, 1>>] = "load" /\ p[<<1, 1, 1, 1>>] = 1
    /\ tileA[<<1, 1>>][<<0, 0>>] = [val |-> 4, ph |-> 1]
    /\ tileA[<<1, 1>>][<<1, 1>>].ph = 0
    /\ tileA[<<0, 0>>][<<1, 1>>] = [val |-> 2, ph |-> 0]

\* ---------------------------------------------------------------- C20
\* C20: the padding of the grid is strictly less than one tile
\* (round_up(N, T) - N < T), so every launched work-group has a work-item
\* with gy < N and gx < N: no group lies wholly outside the matrix, and
\* every group writes at least one element of C.
C20_PaddingBelowTile ==
    /\ G0 - N < TILE
    /\ G1 - N < TILE
    /\ hpc = "submit" =>
       \A x \in 1 .. MaxArith, tile \in 1 .. MaxArith :
          round_up(x, tile) - x < tile
    /\ \A g \in Groups :
          /\ \E t \in ItemsOf(g) :
                t[1] * TILE + t[3] < N /\ t[2] * TILE + t[4] < N
          /\ (started[g] /\ \A t \in ItemsOf(g) : pc[t] = "done") =>
                \E o \in Offsets(N) :
                    /\ Cwrites[o] # <<>>
                    /\ <<Cwrites[o][1][1], Cwrites[o][1][2]>> = g

\* the corner group (1, 1) of N = 3 under tile 2 has finished: of its four
\* work-items only (0, 0) is inside the matrix, and it wrote C[2][2]
C20_Witness ==
    /\ N = 3 /\ TILE = 2 /\ G0 - N = 1
    /\ started[<<1, 1>>]
    /\ \A t \in ItemsOf(<<1, 1>>) : pc[t] = "done"
    /\ Cwrites[8] = << <<1, 1, 0, 0>> >>
    /\ \A o \in {0, 1, 2, 3, 4, 5, 6, 7} :
          Cwrites[o] = <<>> \/ Cwrites[o][1] \notin ItemsOf(<<1, 1>>)

====
